---- MODULE Spec2Model ----
(***************************************************************************)
(* Model of src/src/data/s2.py: the S2 cell codec (tokens, ids, parent and *)
(* children, validity) and polyfill (bounding-rectangle covering followed  *)
(* by a planar polygon-intersection filter).                               *)
(*                                                                         *)
(* s2.py is a thin layer over two libraries, s2sphere and shapely.  Their  *)
(* operations are modelled by what they compute, at the lines of s2.py     *)
(* that call them:                                                         *)
(*   - a cell id is a 64-bit word, kept here as a sequence of 64 bits,     *)
(*     most significant first (TLC's integers are 32 bits wide);           *)
(*   - a token is a sequence of one-character strings;                     *)
(*   - CellId.from_token pads the string on the right with "0" to 16       *)
(*     characters and reads it with int(s, 16); CellId.to_token writes 16  *)
(*     hex digits and strips the trailing "0"s; hex() writes "0x" and the  *)
(*     digits without leading zeros.                                       *)
(***************************************************************************)
EXTENDS Integers, Sequences, FiniteSets, TLC

VARIABLES
    tok,          \* codec: the string the caller holds (a token, or any string)
    ret,          \* codec: the last call and what it returned or raised
    geo_json,     \* polyfill: the polygon, [coordinates |-> <<ring of <<lng, lat>> >>]
    seam,         \* the longitude LatLng.from_point gives a vertex on the +/-180 seam
    call,         \* polyfill: the last call and its arguments
    cells,        \* polyfill: what _bbox_polyfill returned (cell ids, in order)
    coordinates,  \* polyfill: the ring handed to _geo_intersect
    cells_geo,    \* polyfill: the (token, boundary) pairs handed to the filter
    result,       \* the value the call returned
    raised        \* the error the call raised ("" when it returned)

codecVars == <<tok, ret>>

polyVars == <<geo_json, seam, call, cells, coordinates, cells_geo, result, raised>>

vars == <<tok, ret, geo_json, seam, call, cells, coordinates, cells_geo, result, raised>>

\* ------------------------------------------------------------------ bounds

\* CellId.MAX_LEVEL: "Resolution can vary from 0 to 30".
MAX_LEVEL == 30

\* Cells of the codec specification: any path of at most MaxPrefix child
\* steps from a face cell, followed by first-child steps down to MAX_LEVEL.
MaxPrefix == 2

\* Strings given to the codec that need not be tokens: every string of at
\* most MaxRawLen characters of RawAlphabet.
MaxRawLen == 2

\* Levels polyfill is called with: 0..PolyMaxRes (and the levels -1 and
\* MAX_LEVEL + 1 outside the range).
PolyMaxRes == 1

\* ------------------------------------------------------------- characters

HexChars == <<"0", "1", "2", "3", "4", "5", "6", "7",
              "8", "9", "a", "b", "c", "d", "e", "f">>

HexDigits == {HexChars[i] : i \in 1..16}

NibbleOfChar == [c \in HexDigits |-> (CHOOSE i \in 1..16 : HexChars[i] = c) - 1]

CharToNibble(c) == NibbleOfChar[c]

NibbleToChar(n) == HexChars[n + 1]

\* ------------------------------------------------------------ 64-bit words
\* A word is its 16 hex digits (numbers 0..15), most significant first.
\* Bit p (0 = least significant) lies in digit 16 - (p \div 4).

Zero64 == [k \in 1..16 |-> 0]

\* Number of trailing zero bits of a hex digit n > 0.
Ctz4(n) == IF n % 2 = 1 THEN 0 ELSE IF n % 4 = 2 THEN 1 ELSE IF n % 8 = 4 THEN 2 ELSE 3

RECURSIVE LastNonZero(_, _)
LastNonZero(w, k) ==
    IF k = 0 THEN 0 ELSE IF w[k] # 0 THEN k ELSE LastNonZero(w, k - 1)

\* Position of the lowest set bit (CellId.lsb() is 2^LsbPos); -1 for the word 0.
LsbPosAt(w, k) == IF k = 0 THEN -1 ELSE 4 * (16 - k) + Ctz4(w[k])

LsbPos(w) == LsbPosAt(w, LastNonZero(w, 16))

\* (w & -(1 << p)) | (1 << p): the bits above p kept, bit p set, the rest 0.
TruncSet(w, p) ==
    LET kp == 16 - (p \div 4)
        b  == 2 ^ (p % 4)
    IN  [k \in 1..16 |-> IF k < kp THEN w[k]
                         ELSE IF k = kp THEN (w[k] \div (2 * b)) * (2 * b) + b
                         ELSE 0]

\* w + v * 2^p for v in {-1, 0, 1}, where bit p of w lets it pass without
\* carry or borrow.
AddBit(w, p, v) ==
    [w EXCEPT ![16 - (p \div 4)] = @ + v * (2 ^ (p % 4))]

\* --------------------------------------------- s2sphere.CellId, python hex

\* CellId.face(): id >> 61, the top three bits.
CellId_face(w) == w[1] \div 2

\* CellId.is_valid(): face < 6 and the lowest set bit at an even position
\* 0, 2, ..., 60 (mask 0x1555555555555555).
ValidFaceAndLsb(face, p) == face < 6 /\ p >= 0 /\ p <= 60 /\ p % 2 = 0

CellId_is_valid(w) == ValidFaceAndLsb(CellId_face(w), LsbPos(w))

\* The bit tests of CellId.level() on the isolated lowest bit q of a 32-bit
\* half: 0x00005555 adds 8, 0x00550055 adds 4, 0x05050505 adds 2,
\* 0x11111111 adds 1.
LevelMaskSum(q) ==
    (IF q % 2 = 0 /\ q < 16 THEN 8 ELSE 0)
    + (IF q % 2 = 0 /\ q % 16 < 8 THEN 4 ELSE 0)
    + (IF q % 2 = 0 /\ q % 8 < 4 THEN 2 ELSE 0)
    + (IF q % 4 = 0 THEN 1 ELSE 0)

\* CellId.level() before its assertions: MAX_LEVEL for a leaf; else from the
\* low half when it is not zero (base 15), from the high half otherwise
\* (base -1; the word 0 gives -1).
LevelOfLsb(p) ==
    IF p = 0 THEN MAX_LEVEL
    ELSE IF p = -1 THEN -1
    ELSE IF p < 32 THEN 15 + LevelMaskSum(p)
    ELSE -1 + LevelMaskSum(p - 32)

CellId_level_raw(w) == LevelOfLsb(LsbPos(w))

\* CellId.level(): asserts 0 <= level <= MAX_LEVEL.
LevelAsserted(l) ==
    IF l >= 0 /\ l <= MAX_LEVEL
    THEN [ok |-> TRUE, err |-> "", level |-> l]
    ELSE [ok |-> FALSE, err |-> "AssertionError", level |-> l]

CellId_level(w) == LevelAsserted(CellId_level_raw(w))

\* str.ljust(n, c).
Ljust(s, n, c) ==
    IF Len(s) >= n THEN s ELSE s \o [i \in 1..(n - Len(s)) |-> c]

\* int(s, 16) for strings of at most 16 digits: an optional "0x" prefix,
\* then one or more hex digits; anything else is a ValueError.
IntBase16(s) ==
    LET pre  == Len(s) >= 2 /\ s[1] = "0" /\ s[2] = "x"
        body == IF pre THEN SubSeq(s, 3, Len(s)) ELSE s
        n    == Len(body)
    IN  IF n = 0 \/ n > 16 \/ \E i \in 1..n : body[i] \notin HexDigits
        THEN [ok |-> FALSE, err |-> "ValueError", id |-> Zero64]
        ELSE [ok |-> TRUE, err |-> "",
              id |-> [k \in 1..16 |->
                         IF k <= 16 - n THEN 0
                         ELSE CharToNibble(body[k - (16 - n)])]]

\* CellId.from_token(token): int(token.ljust(16, '0'), 16).
CellId_from_token(token) == IntBase16(Ljust(token, 16, "0"))

\* The 16 hex digits of a word: format(id, '016x').
Format016x(w) == [k \in 1..16 |-> NibbleToChar(w[k])]

RECURSIVE LastNotChar0(_, _)
LastNotChar0(s, k) ==
    IF k = 0 THEN 0 ELSE IF s[k] # "0" THEN k ELSE LastNotChar0(s, k - 1)

\* str.rstrip('0').
Rstrip0(s) == SubSeq(s, 1, LastNotChar0(s, Len(s)))

\* CellId.to_token(): format(id, '016x').rstrip('0').
CellId_to_token(w) == Rstrip0(Format016x(w))

\* hex(n): "0x" and the digits without leading zeros ("0x0" for 0).
RECURSIVE FirstNonZero(_, _)
FirstNonZero(w, k) ==
    IF k = 16 THEN 16 ELSE IF w[k] # 0 THEN k ELSE FirstNonZero(w, k + 1)

PyHex(w) == <<"0", "x">> \o SubSeq(Format016x(w), FirstNonZero(w, 1), 16)

\* A parent() that shifts the lsb by four bits, two levels up.
CellId_parent_two_up(w) ==
    IF ~CellId_is_valid(w) \/ LsbPos(w) = 60
    THEN [ok |-> FALSE, err |-> "AssertionError", id |-> Zero64]
    ELSE [ok |-> TRUE, err |-> "", id |-> TruncSet(w, LsbPos(w) + 4)]

\* CellId.parent(): asserts a valid cell that is no face cell; then
\* new_lsb = lsb << 2, (id & -new_lsb) | new_lsb.
CellId_parent(w) ==
    IF ~CellId_is_valid(w) \/ LsbPos(w) = 60
    THEN [ok |-> FALSE, err |-> "AssertionError", id |-> Zero64]
    ELSE [ok |-> TRUE, err |-> "", id |-> TruncSet(w, LsbPos(w) + 2)]

\* A parent(level) that clamps the level into 0..self.level() and asserts
\* nothing about it.
CellId_parent_at_clamped(w, level) ==
    IF ~CellId_is_valid(w)
    THEN [ok |-> FALSE, err |-> "AssertionError", id |-> Zero64]
    ELSE [ok |-> TRUE, err |-> "",
          id |-> TruncSet(w, IF level < 0 THEN 2 * MAX_LEVEL
                             ELSE IF level > CellId_level_raw(w)
                                  THEN 2 * (MAX_LEVEL - CellId_level_raw(w))
                                  ELSE 2 * (MAX_LEVEL - level))]

\* CellId.parent(level): asserts a valid cell and 0 <= level <= self.level();
\* then new_lsb = lsb_for_level(level) = 1 << 2 * (MAX_LEVEL - level),
\* (id & -new_lsb) | new_lsb.
CellId_parent_at(w, level) ==
    IF ~CellId_is_valid(w) \/ level < 0 \/ level > CellId_level_raw(w)
    THEN [ok |-> FALSE, err |-> "AssertionError", id |-> Zero64]
    ELSE [ok |-> TRUE, err |-> "", id |-> TruncSet(w, 2 * (MAX_LEVEL - level))]

\* The k-th (0..3) cell yielded by CellId.children(): child_begin() is
\* id - lsb + (lsb >> 2), and next() adds twice the child's lsb each time.
ChildAt(w, p, k) ==
    AddBit(AddBit(AddBit(AddBit(w, p, -1), p - 2, 1), p - 1, k % 2), p, k \div 2)

CellId_child(w, k) == ChildAt(w, LsbPos(w), k)

\* CellId.children(): asserts a valid cell that is no leaf.
CellId_children(w) ==
    IF ~CellId_is_valid(w) \/ LsbPos(w) = 0
    THEN [ok |-> FALSE, err |-> "AssertionError", ids |-> <<>>]
    ELSE [ok |-> TRUE, err |-> "",
          ids |-> [k \in 1..4 |-> CellId_child(w, k - 1)]]

\* Cell(cell_id): decodes face, i, j and orientation through lookup tables
\* (no check of the face) and stores cell_id.level(), whose assertion is the
\* only failure.
Cell_init(w) == CellId_level(w)

\* ------------------------------------------------------------ s2.py: codec

CellOf(c, l) == [ok |-> l.ok, err |-> l.err, id |-> c.id, level |-> l.level]

CellOfId(c) ==
    IF ~c.ok THEN [ok |-> FALSE, err |-> c.err, id |-> Zero64, level |-> -1]
    ELSE CellOf(c, Cell_init(c.id))

token_to_cell(s2_token) == CellOfId(CellId_from_token(s2_token))

id_to_token(s2_id) ==
    LET c == CellId_from_token(PyHex(s2_id))
    IN  IF c.ok THEN [ok |-> TRUE, err |-> "", token |-> CellId_to_token(c.id)]
        ELSE [ok |-> FALSE, err |-> c.err, token |-> <<>>]

token_to_id(s2_token) == CellId_from_token(s2_token)

s2_get_resolution(s2_token) == token_to_cell(s2_token)

s2_is_valid(s2_token) == token_to_cell(s2_token).ok

s2_to_children(s2_token) ==
    LET c == CellId_from_token(s2_token)
    IN  IF ~c.ok THEN [ok |-> FALSE, err |-> c.err, tokens |-> <<>>]
        ELSE LET ch == CellId_children(c.id)
             IN  [ok |-> ch.ok, err |-> ch.err,
                  tokens |-> [k \in 1..Len(ch.ids) |-> CellId_to_token(ch.ids[k])]]

s2_to_parent(s2_token) ==
    LET c == CellId_from_token(s2_token)
    IN  IF ~c.ok THEN [ok |-> FALSE, err |-> c.err, token |-> <<>>]
        ELSE LET p == CellId_parent(c.id)
             IN  [ok |-> p.ok, err |-> p.err,
                  token |-> IF p.ok THEN CellId_to_token(p.id) ELSE <<>>]

\* ----------------------------------------------------- geometry: the grid
\* Coordinates are whole numbers of grid units; 90 degrees are FaceW units.
\* The model keeps the equatorial band |lat| <= 45 degrees, tiled by the four
\* equatorial faces 0, 1, 3 and 4 (face 0 spans lng -45..45, face 1 spans
\* 45..135, face 3 spans 135..-135 across the seam, face 4 spans -135..-45).
\* A cell of level l is one box of a 2^l x 2^l grid on its face; the curved
\* edges of real cells are drawn straight.

FaceW == 2 ^ (PolyMaxRes + 1)

HalfTurn == 2 * FaceW

EquatorFaces == <<0, 1, 3, 4>>

\* Longitude (grid units, unwrapped) of the western edge of a face.
FaceLng0(face) ==
    CASE face = 0 -> -(FaceW \div 2)
      [] face = 1 -> FaceW \div 2
      [] face = 3 -> 3 * (FaceW \div 2)
      [] face = 4 -> -(3 * (FaceW \div 2))

\* Bit p of a word.
BitAt(w, p) == (w[16 - (p \div 4)] \div (2 ^ (p % 4))) % 2

\* Exclusive or of two 2-bit numbers.
Xor2(a, b) == 2 * (((a \div 2) + (b \div 2)) % 2) + (((a % 2) + (b % 2)) % 2)

\* S2's Hilbert curve tables: POS_TO_IJ[orientation][pos] is 2 * ibit + jbit,
\* POS_TO_ORIENTATION[pos] is the change of orientation in that child.
POS_TO_IJ == << <<0, 1, 3, 2>>, <<0, 2, 3, 1>>, <<3, 2, 0, 1>>, <<3, 1, 0, 2>> >>

POS_TO_ORIENTATION == <<1, 0, 0, 3>>

\* The two position bits of the level-l ancestor (1 <= l <= level).
PosAt(w, l) == 2 * BitAt(w, 62 - 2 * l) + BitAt(w, 61 - 2 * l)

\* CellId.to_face_ij_orientation(), down to the cell's level: the cell's
\* (i, j) on its face's 2^level grid.  The orientation starts as face & 1.
RECURSIVE DecodeIJ(_, _, _, _, _, _)
DecodeIJ(w, level, l, o, i, j) ==
    IF l > level THEN <<i, j>>
    ELSE LET pos == PosAt(w, l)
             ij  == POS_TO_IJ[o + 1][pos + 1]
         IN  DecodeIJ(w, level, l + 1, Xor2(o, POS_TO_ORIENTATION[pos + 1]),
                      2 * i + (ij \div 2), 2 * j + (ij % 2))

\* CellId.from_face_pos_level(face, pos, level): the cell of a face whose
\* position along the Hilbert curve, at its level, is pos.
CellId_from_face_pos_level(face, pos, level) ==
    LET bit(p) == IF p >= 61 THEN (face \div (2 ^ (p - 61))) % 2
                  ELSE IF p = 60 - 2 * level THEN 1
                  ELSE IF p < 60 - 2 * level THEN 0
                  ELSE (pos \div (2 ^ (p - (61 - 2 * level)))) % 2
    IN  [k \in 1..16 |-> 8 * bit(4 * (16 - k) + 3) + 4 * bit(4 * (16 - k) + 2)
                         + 2 * bit(4 * (16 - k) + 1) + bit(4 * (16 - k))]

\* The box of the cell (face, level, ij) in grid units: lat lo..hi and lng
\* lo..hi, lng unwrapped (hi may pass HalfTurn).  On faces 0 and 1, i runs
\* east and j runs north; on faces 3 and 4, j runs east and i runs south.
BoxOfIJ(face, level, ij, sz) ==
    [face |-> face, level |-> level,
     lat_lo |-> IF face \in {0, 1} THEN -(FaceW \div 2) + ij[2] * sz
                ELSE (FaceW \div 2) - (ij[1] + 1) * sz,
     lat_hi |-> IF face \in {0, 1} THEN -(FaceW \div 2) + (ij[2] + 1) * sz
                ELSE (FaceW \div 2) - ij[1] * sz,
     lng_lo |-> FaceLng0(face) + (IF face \in {0, 1} THEN ij[1] ELSE ij[2]) * sz,
     lng_hi |-> FaceLng0(face) + (IF face \in {0, 1} THEN ij[1] ELSE ij[2]) * sz + sz]

BoxOfLevel(w, face, level) ==
    BoxOfIJ(face, level, DecodeIJ(w, level, 1, face % 2, 0, 0), FaceW \div (2 ^ level))

\* Cell(cell_id) as the model needs it: the face, the level and the bounds
\* the constructor derives from to_face_ij_orientation().
CellBox(w) == BoxOfLevel(w, CellId_face(w), CellId_level_raw(w))

\* A longitude in -HalfTurn..HalfTurn; sm is what the seam itself becomes.
WrapLng(x, sm) ==
    IF x > HalfTurn THEN x - 2 * HalfTurn
    ELSE IF x = HalfTurn \/ x = -HalfTurn THEN sm
    ELSE x

\* LatLng.from_point(cell.get_vertex(k)), k in 0..3, for the cell of box b:
\* the corners (u lo, v lo), (u hi, v lo), (u hi, v hi), (u lo, v hi).
CellVertex(b, k, sm) ==
    IF b.face \in {0, 1}
    THEN CASE k = 0 -> [lat |-> b.lat_lo, lng |-> WrapLng(b.lng_lo, sm)]
           [] k = 1 -> [lat |-> b.lat_lo, lng |-> WrapLng(b.lng_hi, sm)]
           [] k = 2 -> [lat |-> b.lat_hi, lng |-> WrapLng(b.lng_hi, sm)]
           [] k = 3 -> [lat |-> b.lat_hi, lng |-> WrapLng(b.lng_lo, sm)]
    ELSE CASE k = 0 -> [lat |-> b.lat_hi, lng |-> WrapLng(b.lng_lo, sm)]
           [] k = 1 -> [lat |-> b.lat_lo, lng |-> WrapLng(b.lng_lo, sm)]
           [] k = 2 -> [lat |-> b.lat_lo, lng |-> WrapLng(b.lng_hi, sm)]
           [] k = 3 -> [lat |-> b.lat_hi, lng |-> WrapLng(b.lng_hi, sm)]

\* S1Interval.positive_distance(a, b): from a eastwards to b.
PositiveDistance(a, b) ==
    IF b - a >= 0 THEN b - a ELSE (b + HalfTurn) - (a - HalfTurn)

\* SphereInterval.from_point_pair(a, b): -180 is read as 180; the interval is
\* the shorter of the two arcs between a and b.
SphereInterval_from_point_pair(a, b) ==
    LET a1 == IF a = -HalfTurn THEN HalfTurn ELSE a
        b1 == IF b = -HalfTurn THEN HalfTurn ELSE b
    IN  IF PositiveDistance(a1, b1) <= HalfTurn
        THEN [lo |-> a1, hi |-> b1]
        ELSE [lo |-> b1, hi |-> a1]

\* SphereInterval.intersects(other), for intervals that are not empty.
SphereInterval_intersects(x, y) ==
    IF x.lo > x.hi
    THEN y.lo > y.hi \/ y.lo <= x.hi \/ y.hi >= x.lo
    ELSE IF y.lo > y.hi
         THEN y.lo <= x.hi \/ y.hi >= x.lo
         ELSE y.lo <= x.hi /\ y.hi >= x.lo

\* LatLngRect.from_point_pair(p1, p2): latitudes lo..hi, longitudes by the
\* shorter arc.
LatLngRect_from_point_pair(p1, p2) ==
    [lat_lo |-> IF p1.lat <= p2.lat THEN p1.lat ELSE p2.lat,
     lat_hi |-> IF p1.lat <= p2.lat THEN p2.lat ELSE p1.lat,
     lng    |-> SphereInterval_from_point_pair(p1.lng, p2.lng)]

\* LatLngRect.may_intersect(cell): the cell's box b meets the rectangle.
MayIntersect(region, b) ==
    /\ b.lat_lo <= region.lat_hi
    /\ region.lat_lo <= b.lat_hi
    /\ SphereInterval_intersects(
           [lo |-> WrapLng(b.lng_lo, HalfTurn), hi |-> WrapLng(b.lng_hi, HalfTurn)],
           region.lng)

\* All cells of a level in the band, in increasing order of id.
AllCells(level) ==
    [n \in 1..(4 * (4 ^ level)) |->
        CellId_from_face_pos_level(EquatorFaces[((n - 1) \div (4 ^ level)) + 1],
                                   (n - 1) % (4 ^ level), level)]

\* The min_level and max_level setters of RegionCoverer:
\* assert 0 <= value <= MAX_LEVEL, then store the value.
RegionCoverer_set_level(value) ==
    IF value >= 0 /\ value <= MAX_LEVEL
    THEN [ok |-> TRUE, err |-> "", level |-> value]
    ELSE [ok |-> FALSE, err |-> "AssertionError", level |-> value]

\* RegionCoverer.get_covering(region) with min_level = max_level = level:
\* the cells of that level that may intersect the region, sorted by id.
\* AllCells for the levels the model uses.
LevelCells == [l \in 0..PolyMaxRes |-> AllCells(l)]

\* Their boxes.
LevelBoxes ==
    [l \in 0..PolyMaxRes |-> [n \in 1..Len(LevelCells[l]) |-> CellBox(LevelCells[l][n])]]

RECURSIVE CoveringFrom(_, _, _)
CoveringFrom(region, level, n) ==
    IF n > Len(LevelCells[level]) THEN <<>>
    ELSE IF MayIntersect(region, LevelBoxes[level][n])
         THEN <<LevelCells[level][n]>> \o CoveringFrom(region, level, n + 1)
         ELSE CoveringFrom(region, level, n + 1)

RegionCoverer_get_covering(region, level) == CoveringFrom(region, level, 1)

\* shapely: Polygon(a).intersects(Polygon(b)) for convex rings of points
\* <<x, y>>: the closed polygons share a point iff no edge of either one
\* separates them (the projections on the edge's normal do not overlap).
Apart(pa, pb) ==
    \/ \A u \in pa : \A v \in pb : u < v
    \/ \A u \in pa : \A v \in pb : v < u

Projections(a, nx, ny) == {nx * a[i][1] + ny * a[i][2] : i \in 1..Len(a)}

Separates(a, b, p, q) ==
    Apart(Projections(a, -(q[2] - p[2]), q[1] - p[1]),
          Projections(b, -(q[2] - p[2]), q[1] - p[1]))

Polygon_intersects(a, b) ==
    /\ \A i \in 1..Len(a) : ~Separates(a, b, a[i], a[(i % Len(a)) + 1])
    /\ \A i \in 1..Len(b) : ~Separates(a, b, b[i], b[(i % Len(b)) + 1])

\* -------------------------------------------------------- s2.py: polyfill

geo_json_to_extremes(gj) ==
    LET cs == gj.coordinates[1]
    IN  [lat |-> [i \in 1..Len(cs) |-> cs[i][2]],
         lng |-> [i \in 1..Len(cs) |-> cs[i][1]]]

SeqMin(xs) == CHOOSE x \in {xs[i] : i \in 1..Len(xs)} : \A i \in 1..Len(xs) : x <= xs[i]

SeqMax(xs) == CHOOSE x \in {xs[i] : i \in 1..Len(xs)} : \A i \in 1..Len(xs) : x >= xs[i]

bbox_polyfill(gj, res) ==
    LET ex     == geo_json_to_extremes(gj)
        p1     == [lat |-> SeqMin(ex.lat), lng |-> SeqMin(ex.lng)]
        p2     == [lat |-> SeqMax(ex.lat), lng |-> SeqMax(ex.lng)]
        lv     == RegionCoverer_set_level(res)
    IN  IF ~lv.ok THEN [ok |-> FALSE, err |-> lv.err, cells |-> <<>>]
        ELSE [ok |-> TRUE, err |-> "",
              cells |-> RegionCoverer_get_covering(
                            LatLngRect_from_point_pair(p1, p2), res)]

swipes(x) == <<x[2], x[1]>>

geo_intersect(geo_1, geo_2) == Polygon_intersects(geo_1, geo_2)

to_latlon(x) == <<x.lat, x.lng>>

\* A _to_lonlat that keeps the (lat, lng) order.
to_lonlat_unswapped(x) == <<x.lat, x.lng>>

to_lonlat(x) == <<x.lng, x.lat>>

\* A boundary that is never closed: vertices 0, 1, 2, 3 for either flag.
CellBoundary_open(b, geo_json_conformant, sm) ==
    IF geo_json_conformant
    THEN [n \in 1..4 |-> <<CellVertex(b, n - 1, sm).lng, CellVertex(b, n - 1, sm).lat>>]
    ELSE [n \in 1..4 |-> <<CellVertex(b, n - 1, sm).lat, CellVertex(b, n - 1, sm).lng>>]

\* The list s2_to_geo_boundary builds for a decoded cell of box b: vertices
\* 0, 1, 2, 3, 0 as (lng, lat) when conformant, vertices 0, 1, 2, 3 as
\* (lat, lng) otherwise.
CellBoundary(b, geo_json_conformant, sm) ==
    IF geo_json_conformant
    THEN [n \in 1..5 |-> to_lonlat(CellVertex(b, (n - 1) % 4, sm))]
    ELSE [n \in 1..4 |-> to_latlon(CellVertex(b, n - 1, sm))]

BoundaryOfCell(c, geo_json_conformant, sm) ==
    IF ~c.ok THEN [ok |-> FALSE, err |-> c.err, geometry |-> <<>>]
    ELSE [ok |-> TRUE, err |-> "",
          geometry |-> CellBoundary(CellBox(c.id), geo_json_conformant, sm)]

s2_to_geo_boundary(s2_token, geo_json_conformant, sm) ==
    BoundaryOfCell(token_to_cell(s2_token), geo_json_conformant, sm)

\* polyfill: line 162, the covering.
PolyCells(gj, res) == bbox_polyfill(gj, res)

\* polyfill: lines 164-167, (token, boundary) of every covering cell.
TokenAndBoundary(token, geo_json_conformant, sm) ==
    <<token, s2_to_geo_boundary(token, geo_json_conformant, sm).geometry>>

PolyCellsGeo(cs, geo_json_conformant, sm) ==
    [n \in 1..Len(cs) |->
        TokenAndBoundary(CellId_to_token(cs[n]), geo_json_conformant, sm)]

\* A ring that is swapped to (lat, lng) whatever the flag.
PolyCoordinates_swapped(gj, geo_json_conformant) ==
    [i \in 1..Len(gj.coordinates[1]) |-> swipes(gj.coordinates[1][i])]

\* polyfill: lines 169-172, the polygon's ring as the filter reads it.
PolyCoordinates(gj, geo_json_conformant) ==
    IF geo_json_conformant THEN gj.coordinates[1]
    ELSE [i \in 1..Len(gj.coordinates[1]) |-> swipes(gj.coordinates[1][i])]

\* No filter: the whole covering is kept.
PolyFiltered_all(coords, geo) == geo

\* polyfill: line 174, the filter.
PolyFiltered(coords, geo) ==
    LET Keep(c) == geo_intersect(coords, c[2])
    IN  SelectSeq(geo, Keep)

\* A return that, without with_id, loses the first surviving cell's ring.
PolyReturn_short(filtered, with_id) ==
    IF with_id
    THEN [n \in 1..Len(filtered) |->
             [id |-> filtered[n][1], geometry |-> filtered[n][2]]]
    ELSE [n \in 1..(Len(filtered) - 1) |-> filtered[n + 1][2]]

\* polyfill: lines 176-178, the value returned.
PolyReturn(filtered, with_id) ==
    IF with_id
    THEN [n \in 1..Len(filtered) |->
             [id |-> filtered[n][1], geometry |-> filtered[n][2]]]
    ELSE [n \in 1..Len(filtered) |-> filtered[n][2]]

PolyfillOf(c, gj, geo_json_conformant, with_id, sm) ==
    IF ~c.ok THEN [ok |-> FALSE, err |-> c.err, value |-> <<>>]
    ELSE [ok |-> TRUE, err |-> "",
          value |-> PolyReturn(
              PolyFiltered(PolyCoordinates(gj, geo_json_conformant),
                           PolyCellsGeo(c.cells, geo_json_conformant, sm)),
              with_id)]

polyfill(gj, res, geo_json_conformant, with_id, sm) ==
    PolyfillOf(PolyCells(gj, res), gj, geo_json_conformant, with_id, sm)

\* ------------------------------------------------- codec: the state machine

RawAlphabet == HexDigits \cup {"x", "!"}

RawTokens == UNION {[1..n -> RawAlphabet] : n \in 0..MaxRawLen}

\* The tokens of the six face cells (level 0).
FaceTokens == {<<"1">>, <<"3">>, <<"5">>, <<"7">>, <<"9">>, <<"b">>}

NoRet == [op |-> "none", ok |-> TRUE, err |-> "", token |-> <<>>,
          tokens |-> <<>>, level |-> -1, flag |-> FALSE]

\* The leaf cell CellId.from_lat_lng yields for a point of cell w: here the
\* first leaf inside w (child_begin(MAX_LEVEL): id - lsb + 1).
FirstLeafAt(w, p) == IF p = 0 THEN w ELSE AddBit(AddBit(w, p, -1), 0, 1)

FirstLeaf(w) == FirstLeafAt(w, LsbPos(w))

\* CellId.from_lat_lng(LatLng.from_degrees(lat, lng)).parent(res).to_token()
\* for a point whose leaf cell is leaf.
geo_to_s2(leaf, res) ==
    LET p == CellId_parent_at(leaf, res)
    IN  [ok |-> p.ok, err |-> p.err,
         token |-> IF p.ok THEN CellId_to_token(p.id) ELSE <<>>]

\* The functions are pure: each call is made on the string the caller holds,
\* right after the caller obtained it.
Holding == ret.op \in {"none", "s2_to_children"}

NoCall == [op |-> "none", res |-> 0, conformant |-> FALSE, with_id |-> FALSE,
           token |-> <<>>]

PolyIdle ==
    /\ geo_json = [coordinates |-> <<>>]
    /\ seam = HalfTurn
    /\ call = NoCall
    /\ cells = <<>>
    /\ coordinates = <<>>
    /\ cells_geo = <<>>
    /\ result = <<>>
    /\ raised = ""

CodecInit ==
    /\ tok \in FaceTokens \cup RawTokens
    /\ ret = NoRet
    /\ PolyIdle

\* The caller asks for the children of a cell and goes on with one of them.
CallChildren(k) ==
    LET r == s2_to_children(tok)
        c == token_to_cell(tok)
    IN  /\ Holding
        /\ r.ok
        /\ k = 0 \/ c.level < MaxPrefix
        /\ tok' = r.tokens[k + 1]
        /\ ret' = [NoRet EXCEPT !.op = "s2_to_children", !.tokens = r.tokens]
        /\ UNCHANGED polyVars

CallParent ==
    LET r == s2_to_parent(tok)
    IN  /\ Holding
        /\ ret' = [NoRet EXCEPT !.op = "s2_to_parent", !.ok = r.ok,
                                !.err = r.err, !.token = r.token]
        /\ UNCHANGED tok
        /\ UNCHANGED polyVars

CallRoundTrip ==
    LET i == token_to_id(tok)
        r == IF i.ok THEN id_to_token(i.id)
             ELSE [ok |-> FALSE, err |-> i.err, token |-> <<>>]
    IN  /\ Holding
        /\ ret' = [NoRet EXCEPT !.op = "round_trip", !.ok = r.ok,
                                !.err = r.err, !.token = r.token]
        /\ UNCHANGED tok
        /\ UNCHANGED polyVars

CallGetResolution ==
    LET r == s2_get_resolution(tok)
    IN  /\ Holding
        /\ ret' = [NoRet EXCEPT !.op = "s2_get_resolution", !.ok = r.ok,
                                !.err = r.err, !.level = r.level]
        /\ UNCHANGED tok
        /\ UNCHANGED polyVars

CallIsValid ==
    /\ Holding
    /\ ret' = [NoRet EXCEPT !.op = "s2_is_valid", !.flag = s2_is_valid(tok)]
    /\ UNCHANGED tok
    /\ UNCHANGED polyVars

\* geo_to_s2 for a point inside the cell the caller holds.
CallGeoToS2(res) ==
    LET c == token_to_id(tok)
        r == geo_to_s2(FirstLeaf(c.id), res)
    IN  /\ Holding
        /\ c.ok /\ CellId_is_valid(c.id)
        /\ ret' = [NoRet EXCEPT !.op = "geo_to_s2", !.ok = r.ok, !.err = r.err,
                                !.token = r.token, !.level = res]
        /\ UNCHANGED tok
        /\ UNCHANGED polyVars

CodecNext ==
    \/ \E k \in 0..3 : CallChildren(k)
    \/ CallParent
    \/ CallRoundTrip
    \/ CallGetResolution
    \/ CallIsValid
    \/ \E res \in {-1, 0, MAX_LEVEL, MAX_LEVEL + 1} : CallGeoToS2(res)

Spec == CodecInit /\ [][CodecNext]_vars

\* ---------------------------------------------- polyfill: the state machine

\* The polygons given to polyfill: triangles with corners on a coarse grid of
\* 22.5 degrees, as closed GeoJSON rings of <<lng, lat>>.
PolyStep == FaceW \div 4

PolyLngs == {-8, -5, 0, 2, 6, 8}

PolyLats == {-1, 1}

PolyPoints == {<<x * PolyStep, y * PolyStep>> : x \in PolyLngs, y \in PolyLats}

Before(p, q) == p[1] < q[1] \/ (p[1] = q[1] /\ p[2] < q[2])

Collinear(p, q, r) ==
    (q[1] - p[1]) * (r[2] - p[2]) = (q[2] - p[2]) * (r[1] - p[1])

PolyRings ==
    {<<p, q, r, p>> : p \in PolyPoints, q \in PolyPoints, r \in PolyPoints}

GeoJsons ==
    {[coordinates |-> <<g>>] :
        g \in {t \in PolyRings : /\ Before(t[1], t[2]) /\ Before(t[2], t[3])
                                 /\ ~Collinear(t[1], t[2], t[3])}}

PolyLevels == {-1, MAX_LEVEL + 1} \cup (0..PolyMaxRes)

\* The id of the first level-PolyMaxRes cell that holds the point (lat, lng).
CellHolding(lat, lng) ==
    RegionCoverer_get_covering(
        [lat_lo |-> lat, lat_hi |-> lat,
         lng |-> SphereInterval_from_point_pair(lng, lng)], PolyMaxRes)[1]

PolyInit ==
    /\ tok = <<>>
    /\ ret = NoRet
    /\ geo_json \in GeoJsons
    /\ seam \in {-HalfTurn, HalfTurn}
    /\ call = NoCall
    /\ cells = <<>>
    /\ coordinates = <<>>
    /\ cells_geo = <<>>
    /\ result = <<>>
    /\ raised = ""

\* polyfill(geo_json, res, geo_json_conformant, with_id), c being what line
\* 162 gave: the call ends there when _bbox_polyfill raised.
PolyfillFrom(c, res, geo_json_conformant, with_id) ==
    /\ call.op = "none"
    /\ call' = [NoCall EXCEPT !.op = "polyfill", !.res = res,
                              !.conformant = geo_json_conformant,
                              !.with_id = with_id]
    /\ cells' = c.cells
    /\ raised' = c.err
    /\ IF c.ok
       THEN /\ cells_geo' = PolyCellsGeo(cells', geo_json_conformant, seam)
            /\ coordinates' = PolyCoordinates(geo_json, geo_json_conformant)
            /\ result' = PolyReturn(PolyFiltered(coordinates', cells_geo'), with_id)
       ELSE /\ cells_geo' = <<>>
            /\ coordinates' = <<>>
            /\ result' = <<>>
    /\ UNCHANGED <<geo_json, seam>>
    /\ UNCHANGED codecVars

CallPolyfill(res, geo_json_conformant, with_id) ==
    PolyfillFrom(PolyCells(geo_json, res), res, geo_json_conformant, with_id)

GeoToS2From(r, res) ==
    /\ call.op = "none"
    /\ call' = [NoCall EXCEPT !.op = "geo_to_s2", !.res = res]
    /\ result' = r.token
    /\ raised' = r.err
    /\ UNCHANGED <<geo_json, seam, cells, coordinates, cells_geo>>
    /\ UNCHANGED codecVars

\* geo_to_s2 for the polygon's first corner.
CallPolyGeoToS2(res) ==
    GeoToS2From(geo_to_s2(FirstLeaf(CellHolding(geo_json.coordinates[1][1][2],
                                                geo_json.coordinates[1][1][1])),
                          res),
                res)

GeoBoundaryFrom(t, r, res, geo_json_conformant) ==
    /\ call.op = "none"
    /\ call' = [NoCall EXCEPT !.op = "s2_to_geo_boundary", !.token = t,
                              !.res = res, !.conformant = geo_json_conformant]
    /\ result' = r.geometry
    /\ raised' = r.err
    /\ UNCHANGED <<geo_json, seam, cells, coordinates, cells_geo>>
    /\ UNCHANGED codecVars

GeoBoundaryOf(t, res, geo_json_conformant) ==
    GeoBoundaryFrom(t, s2_to_geo_boundary(t, geo_json_conformant, seam),
                    res, geo_json_conformant)

\* s2_to_geo_boundary for the level-res cell holding the polygon's first corner.
CallGeoBoundary(res, geo_json_conformant) ==
    GeoBoundaryOf(geo_to_s2(FirstLeaf(CellHolding(geo_json.coordinates[1][1][2],
                                                  geo_json.coordinates[1][1][1])),
                            res).token,
                  res, geo_json_conformant)

PolyNext ==
    \/ \E res \in PolyLevels, g \in BOOLEAN, w \in BOOLEAN : CallPolyfill(res, g, w)
    \/ \E res \in PolyLevels : CallPolyGeoToS2(res)
    \/ \E res \in 0..PolyMaxRes, g \in BOOLEAN : CallGeoBoundary(res, g)

PolySpec == PolyInit /\ [][PolyNext]_vars

\* ------------------------------------------------------- claims: the codec

\* A string is a token when it decodes to a valid cell id and is that id's
\* canonical string.
DenotesValidCell(t) ==
    CellId_from_token(t).ok /\ CellId_is_valid(CellId_from_token(t).id)

IsToken(t) ==
    DenotesValidCell(t) /\ CellId_to_token(CellId_from_token(t).id) = t

LevelOfToken(t) == CellId_level_raw(CellId_from_token(t).id)

\* C3: for every valid token t, _id_to_token(_token_to_id(t)) returns t.
C3_RoundTrip ==
    (ret.op = "round_trip" /\ IsToken(tok)) => (ret.ok /\ ret.token = tok)

\* C4: s2_is_valid never raises, and answers True only for a string that
\* denotes a valid cell.
C4_IsValid ==
    ret.op = "s2_is_valid" => (ret.ok /\ (ret.flag => DenotesValidCell(tok)))

\* C9: for every valid token t of level > 0, s2_to_parent(t) is a token one
\* level up, and t is one of the four tokens of s2_to_children of it.
C9_Hierarchy ==
    (ret.op = "s2_to_parent" /\ IsToken(tok) /\ LevelOfToken(tok) > 0) =>
        /\ ret.ok
        /\ s2_get_resolution(ret.token).ok
        /\ s2_get_resolution(ret.token).level = s2_get_resolution(tok).level - 1
        /\ s2_to_children(ret.token).ok
        /\ Len(s2_to_children(ret.token).tokens) = 4
        /\ \E k \in 1..4 : s2_to_children(ret.token).tokens[k] = tok

\* C9's case: the parent of a leaf cell, and of a cell off the first-child path.
C9_Witness ==
    /\ ret.op = "s2_to_parent"
    /\ IsToken(tok)
    /\ LevelOfToken(tok) = 2
    /\ ret.ok
    /\ s2_to_children(ret.token).tokens[3] = tok

\* ------------------------------------------------------- claims: polyfill

Returned == call.op = "polyfill" /\ raised = ""

\* A ring as (lat, lng) pairs.
LatLngOf(ring, is_lng_lat) ==
    IF is_lng_lat THEN [i \in 1..Len(ring) |-> <<ring[i][2], ring[i][1]>>] ELSE ring

\* The polygon's outer ring as (lat, lng) pairs (GeoJSON gives (lng, lat)).
PolygonLatLng == LatLngOf(geo_json.coordinates[1], TRUE)

GeometryOf(x) == IF call.with_id THEN x.geometry ELSE x

TokensOf(value) == [n \in 1..Len(value) |-> value[n].id]

GeometriesOf(value) == [n \in 1..Len(value) |-> value[n].geometry]

\* C1: every cell polyfill returns has a boundary ring that intersects the
\* polygon's outer ring, whatever the level, the ordering flag and with_id.
C1_Soundness ==
    Returned =>
        \A n \in 1..Len(result) :
            Polygon_intersects(PolygonLatLng,
                               LatLngOf(GeometryOf(result[n]), call.conformant))

\* C1's case: the filter dropped a cell of the covering and kept another.
C1_Witness ==
    Returned /\ call.conformant /\ Len(result) > 0 /\ Len(result) < Len(cells)

\* A cell whose ring does not reach the seam: the planar ring is the cell.
AwayFromSeam(w) ==
    CellBox(w).lng_lo > -HalfTurn /\ CellBox(w).lng_hi < HalfTurn

\* C2: every cell of level res whose boundary intersects the polygon is in
\* the result of polyfill (read here on the cells away from the seam).
C2_Completeness ==
    (Returned /\ call.with_id) =>
        \A n \in 1..Len(LevelCells[call.res]) :
            (/\ AwayFromSeam(LevelCells[call.res][n])
             /\ Polygon_intersects(
                    PolygonLatLng,
                    CellBoundary(CellBox(LevelCells[call.res][n]), FALSE, seam)))
            => \E m \in 1..Len(result) :
                   result[m].id = CellId_to_token(LevelCells[call.res][n])

\* Corner k of the cell of box b, as a (lat, lng) or a (lng, lat) pair.
CornerPair(b, k, is_lng_lat) ==
    IF is_lng_lat
    THEN <<CellVertex(b, k, seam).lng, CellVertex(b, k, seam).lat>>
    ELSE <<CellVertex(b, k, seam).lat, CellVertex(b, k, seam).lng>>

\* The first four points of ring are corners 0, 1, 2, 3 of the cell of box b.
CornersIn(ring, b, is_lng_lat) ==
    \A k \in 1..4 : ring[k] = CornerPair(b, k - 1, is_lng_lat)

\* C5: for either value of geo_json_conformant, the ring and the boundaries
\* handed to _geo_intersect are (lat, lng) pairs.
C5_AlwaysLatLng ==
    Returned =>
        /\ coordinates = PolygonLatLng
        /\ \A n \in 1..Len(cells_geo) :
               CornersIn(cells_geo[n][2], CellBox(cells[n]), FALSE)

\* C5 as amended: the ring and the boundaries handed to _geo_intersect use
\* the same ordering, the one asked for: (lat, lng) pairs when
\* geo_json_conformant is False, (lng, lat) pairs when it is True.
C5_SameOrdering ==
    Returned =>
        /\ Len(cells_geo) = Len(cells)
        /\ coordinates = LatLngOf(PolygonLatLng, call.conformant)
        /\ \A n \in 1..Len(cells_geo) :
               CornersIn(cells_geo[n][2], CellBox(cells[n]), call.conformant)

\* C5's case: a conformant call whose ring is not the same either way round.
C5_Witness ==
    /\ Returned
    /\ call.conformant
    /\ Len(cells_geo) > 0
    /\ coordinates # PolygonLatLng

BoundaryReturned == call.op = "s2_to_geo_boundary" /\ raised = ""

BoxOfToken(t) == CellBox(CellId_from_token(t).id)

\* C6: s2_to_geo_boundary returns exactly the 4 corners, in the order 0, 1,
\* 2, 3, for either value of the flag.
C6_FourVertices ==
    BoundaryReturned =>
        /\ Len(result) = 4
        /\ \A k \in 1..4 :
               LatLngOf(result, call.conformant)[k]
                   = to_latlon(CellVertex(BoxOfToken(call.token), k - 1, seam))

\* C6 as amended: the corners come in the order 0, 1, 2, 3 for either value
\* of the flag, as 4 (lat, lng) pairs when it is False and as 5 (lng, lat)
\* pairs, corner 0 repeated at the end, when it is True; the first four
\* pairs of the two differ only by the swap of their components.
C6_Boundary ==
    BoundaryReturned =>
        /\ Len(result) = IF call.conformant THEN 5 ELSE 4
        /\ \A k \in 1..4 :
               LatLngOf(result, call.conformant)[k]
                   = to_latlon(CellVertex(BoxOfToken(call.token), k - 1, seam))
        /\ call.conformant => result[5] = result[1]
        /\ \A k \in 1..4 :
               result[k] =
                   IF call.conformant
                   THEN swipes(s2_to_geo_boundary(call.token, FALSE, seam).geometry[k])
                   ELSE swipes(s2_to_geo_boundary(call.token, TRUE, seam).geometry[k])

\* C6's case: the boundary asked for in (lng, lat) order.
C6_Witness ==
    BoundaryReturned /\ call.conformant /\ Len(result) = 5 /\ call.res = 1

\* xs is what is left of ys, in the order of ys, when some of its members
\* are dropped (the members of ys being distinct).
IsSubsequenceOf(xs, ys) ==
    LET In(y) == \E n \in 1..Len(xs) : xs[n] = y
    IN  SelectSeq(ys, In) = xs

PairsOf(value) == [n \in 1..Len(value) |-> <<value[n].id, value[n].geometry>>]

C8_LevelRejected ==
    (/\ call.op \in {"polyfill", "geo_to_s2"}
     /\ (call.res < 0 \/ call.res > MAX_LEVEL)) =>
        /\ raised # ""
        /\ result = <<>>
        /\ cells = <<>>

\* C8's case: polyfill called with level 31.
C8_Witness ==
    /\ call.op = "polyfill"
    /\ call.res = MAX_LEVEL + 1
    /\ raised = "AssertionError"

\* C10: the tokens polyfill returns with geo_json_conformant = True are the
\* tokens it returns with geo_json_conformant = False, in the same order.
C10_OrderingIndependent ==
    (Returned /\ call.with_id) =>
        TokensOf(result)
            = TokensOf(polyfill(geo_json, call.res, ~call.conformant, TRUE, seam).value)

\* C10's case: a conformant call in which the filter dropped some cell.
C10_Witness ==
    /\ Returned
    /\ call.with_id
    /\ call.conformant
    /\ Len(result) > 0
    /\ Len(result) < Len(cells)

====
